---- MODULE Spec2Model ----
(***************************************************************************)
(* Model of api/index.py: the Shared Home Expense Tracker backend.         *)
(*                                                                         *)
(* The program state is the relational store (five tables and their        *)
(* auto-increment sequences), the clock, and the work of requests that     *)
(* are in flight.  Each endpoint is an action.  The variables users,       *)
(* categories, expenses, to_buy_items and settings hold COMMITTED rows:    *)
(* what a session has changed but not committed lives in `sessions`.       *)
(* Handlers that the store serialises as one transaction are one step;     *)
(* mark_item_purchased and create_category are split at their reads and    *)
(* at each db.commit(), so that other requests interleave between them.    *)
(*                                                                         *)
(* Optional / nullable values are sets: {} is None (NULL), {v} is v.       *)
(***************************************************************************)
EXTENDS Integers, FiniteSets, Sequences, TLC

VARIABLES
    users,          \* table users
    categories,     \* table categories
    expenses,       \* table expenses
    to_buy_items,   \* table to_buy_items
    settings,       \* table settings
    seq,            \* last id handed out by each table's primary-key sequence
    now,            \* datetime.utcnow(), in hours since start-up
    issued,         \* history: the tokens login has returned, and to which user id
    sessions,       \* per worker: the request in flight and its ORM session
    resp,           \* the last response sent
    linked          \* history: which expense mark_item_purchased made for which item

vars == <<users, categories, expenses, to_buy_items, settings, seq, now,
          issued, sessions, resp, linked>>

tables == <<users, categories, expenses, to_buy_items, settings, seq>>

----------------------------------------------------------------------------
(* Bounds of the model *)

MaxUserId == 4          \* users.id sequence stops here (3 seeded users)
MaxCategoryId == 7      \* categories.id sequence stops here (5 seeded)
MaxExpenseId == 2       \* expenses.id sequence stops here
MaxItemId == 1          \* to_buy_items.id sequence stops here
MaxTokens == 2          \* logins that hand out a token
MaxTicks == 4           \* clock advances

(* Program constants *)

ACCESS_TOKEN_EXPIRE_HOURS == 24

None == {}
Some(v) == {v}
The(s) == CHOOSE v \in s : TRUE

Workers == {"w1", "w2"}

TickStep == ACCESS_TOKEN_EXPIRE_HOURS \div 2

----------------------------------------------------------------------------
(* Rows *)

User(id, username, password, full_name, role) ==
    [id |-> id, username |-> username, password |-> password,
     full_name |-> full_name, role |-> role]

Category(id, name, color) == [id |-> id, name |-> name, color |-> color]

Expense(id, amount, category_id, payment_mode, paid_by, date, time, description) ==
    [id |-> id, amount |-> amount, category_id |-> category_id,
     payment_mode |-> payment_mode, paid_by |-> paid_by, date |-> date,
     time |-> time, description |-> description]

\* A new to-buy item: purchased defaults to False, the purchase_* columns to NULL.
ToBuyItem(id, name, target_date, created_by) ==
    [id |-> id, name |-> name, target_date |-> target_date,
     created_by |-> created_by, purchased |-> FALSE, purchased_by |-> None,
     purchase_amount |-> None, purchase_payment_mode |-> None,
     purchase_date |-> None]

Setting(key, value) == [key |-> key, value |-> value]

IdleSession == [pc |-> "idle"]

NoResponse == [op |-> "none", status |-> 0, detail |-> "", body |-> {}]

NoFilters == [category_id |-> None, paid_by |-> None, payment_mode |-> None,
              start_date |-> None, end_date |-> None]

----------------------------------------------------------------------------
(* startup_event on an empty database *)

SeedUsers ==
    { User(1, "admin", "admin", "Home Admin", "admin"),
      User(2, "user1", "user1", "User One", "user"),
      User(3, "user2", "user2", "User Two", "user") }

SeedCategories ==
    { Category(1, "Groceries", "#22c55e"),
      Category(2, "Rent", "#3b82f6"),
      Category(3, "Utilities", "#f97316"),
      Category(4, "Transportation", "#8b5cf6"),
      Category(5, "Entertainment", "#ec4899") }

SeedSettings ==
    { Setting("currency_symbol", "Rs"), Setting("home_name", "Shared Home") }

Init ==
    /\ users = SeedUsers
    /\ categories = SeedCategories
    /\ expenses = {}
    /\ to_buy_items = {}
    /\ settings = SeedSettings
    /\ seq = [users |-> 3, categories |-> 5, expenses |-> 0, to_buy_items |-> 0]
    /\ now = 0
    /\ issued = {}
    /\ sessions = [w \in Workers |-> IdleSession]
    /\ resp = NoResponse
    /\ linked = {}

----------------------------------------------------------------------------
(* JWT helpers *)

\* create_access_token: the payload plus exp = utcnow() + 24 h, signed with
\* SECRET_KEY.  sig stands for the HS256 signature: "valid" is one made with
\* the server's key.
create_access_token(data) ==
    [sub |-> data.sub, exp |-> now + ACCESS_TOKEN_EXPIRE_HOURS, sig |-> "valid"]

decode_access_token_strict(token) ==
    IF token.sig # "valid" THEN {None}
    ELSE IF token.exp <= now + TickStep THEN {None}
    ELSE {Some(token.sub)}

decode_access_token_no_expiry(token) ==
    IF token.sig # "valid" THEN {None} ELSE {Some(token.sub)}

\* decode_access_token: the username, or None on any InvalidTokenError (bad
\* signature, expired).  Whether a token presented exactly at its exp second
\* is still accepted depends on the installed PyJWT (exp < now or exp <= now),
\* so both outcomes are possible there.
decode_access_token(token) ==
    IF token.sig # "valid" THEN {None}
    ELSE IF token.exp < now THEN {None}
    ELSE IF token.exp = now THEN {None, Some(token.sub)}
    ELSE {Some(token.sub)}

\* What a client can put in the Authorization header: a token it was given,
\* or one it signed itself without the key.
ForgedToken == [sub |-> "admin", exp |-> 1000000, sig |-> "forged"]

Tokens == {i.token : i \in issued} \cup {ForgedToken}

----------------------------------------------------------------------------
(* Dependencies *)

AuthError(status, detail) == [status |-> status, detail |-> detail, user |-> None]

get_current_user_by_full_name(token) ==
    { IF username = None
        THEN AuthError(401, "Invalid or expired token")
        ELSE LET found == {u \in users : u.full_name = The(username)} IN
             IF found = {}
               THEN AuthError(401, "User not found")
               ELSE [status |-> 200, detail |-> "", user |-> Some(The(found))]
      : username \in decode_access_token(token) }

\* get_current_user: every result the dependency can give for this token.
get_current_user(token) ==
    { IF username = None
        THEN AuthError(401, "Invalid or expired token")
        ELSE LET found == {u \in users : u.username = The(username)} IN
             IF found = {}
               THEN AuthError(401, "User not found")
               ELSE [status |-> 200, detail |-> "", user |-> Some(The(found))]
      : username \in decode_access_token(token) }

AdminAlways(current) ==
    current

RequireAdmin(current) ==
    IF current.status = 200 /\ The(current.user).role # "admin"
      THEN AuthError(403, "Admin access required")
      ELSE current

\* get_admin_user: get_current_user, then 403 unless role == "admin".
get_admin_user(token) ==
    { RequireAdmin(current) : current \in get_current_user(token) }

Reply(op, status, detail, body) ==
    resp' = [op |-> op, status |-> status, detail |-> detail, body |-> body]

\* An HTTPException raised by a dependency or a handler before any write.
Reject(op, status, detail) ==
    /\ Reply(op, status, detail, {})
    /\ UNCHANGED <<tables, now, issued, sessions, linked>>

----------------------------------------------------------------------------
(* Request inputs *)

LoginInputs ==
    { [username |-> "admin", password |-> "admin"],
      [username |-> "user1", password |-> "user1"],
      [username |-> "user1", password |-> "secret"],
      [username |-> "nobody", password |-> "admin"] }

UserCreateInputs ==
    { [username |-> "user1", password |-> "secret", full_name |-> "User One", role |-> "admin"],
      [username |-> "user3", password |-> "user3", full_name |-> "User Three", role |-> "user"] }

UserIdInputs == {2, 4, 9}

----------------------------------------------------------------------------
(* Authentication endpoints *)

UserResponse(user) ==
    [id |-> user.id, username |-> user.username,
     full_name |-> user.full_name, role |-> user.role]

\* POST /api/login
login(user_login) ==
    LET found == {u \in users : /\ u.username = user_login.username
                                /\ u.password = user_login.password} IN
    IF found = {}
      THEN Reject("login", 401, "Invalid credentials")
      ELSE LET user == The(found)
               access_token == create_access_token([sub |-> user.username]) IN
           /\ Cardinality(issued \cup {[token |-> access_token, user |-> user.id]})
                 <= MaxTokens
           /\ issued' = issued \cup {[token |-> access_token, user |-> user.id]}
           /\ Reply("login", 200, "",
                    {[access_token |-> access_token, token_type |-> "bearer",
                      user |-> UserResponse(user)]})
           /\ UNCHANGED <<tables, now, sessions, linked>>

\* GET /api/me
get_current_user_info(token) ==
    \E current \in get_current_user(token) :
        IF current.status # 200
          THEN Reject("me", current.status, current.detail)
          ELSE /\ Reply("me", 200, "", {UserResponse(The(current.user))})
               /\ UNCHANGED <<tables, now, issued, sessions, linked>>

\* The clock moves on.
Tick ==
    /\ now + TickStep <= MaxTicks * TickStep
    /\ now' = now + TickStep
    /\ UNCHANGED <<tables, issued, sessions, resp, linked>>

----------------------------------------------------------------------------
(* Users *)

\* POST /api/users
create_user(token, user) ==
    \E admin \in get_admin_user(token) :
        IF admin.status # 200
          THEN Reject("create_user", admin.status, admin.detail)
        ELSE IF \E u \in users : u.username = user.username
          THEN Reject("create_user", 400, "Username already exists")
        ELSE LET new_user == User(seq.users + 1, user.username, user.password,
                                  user.full_name, user.role) IN
             /\ seq.users < MaxUserId
             /\ users' = users \cup {new_user}
             /\ seq' = [seq EXCEPT !.users = @ + 1]
             /\ Reply("create_user", 200, "", {UserResponse(new_user)})
             /\ UNCHANGED <<categories, expenses, to_buy_items, settings, now,
                            issued, sessions, linked>>

\* DELETE /api/users/{user_id}.  db.delete(user) first detaches the rows of
\* the user's three one-to-many relationships by setting their foreign key to
\* NULL: expenses.paid_by and to_buy_items.created_by are NOT NULL, so the
\* flush fails when there is such a row; to_buy_items.purchased_by is nullable.
delete_user(token, user_id) ==
    \E admin \in get_admin_user(token) :
        IF admin.status # 200
          THEN Reject("delete_user", admin.status, admin.detail)
        ELSE IF ~ \E u \in users : u.id = user_id
          THEN Reject("delete_user", 404, "User not found")
        ELSE IF \/ \E e \in expenses : e.paid_by = user_id
                \/ \E i \in to_buy_items : i.created_by = user_id
          THEN Reject("delete_user", 500, "IntegrityError")
        ELSE /\ users' = {u \in users : u.id # user_id}
             /\ to_buy_items' =
                    { IF i.purchased_by = Some(user_id)
                        THEN [i EXCEPT !.purchased_by = None] ELSE i
                      : i \in to_buy_items }
             /\ Reply("delete_user", 200, "User deleted successfully", {})
             /\ UNCHANGED <<categories, expenses, settings, seq, now, issued,
                            sessions, linked>>

----------------------------------------------------------------------------
(* Strings that are compared with < and > (dates, times) are sequences of    *)
(* character codes, and the comparison is the database's: lexicographic.     *)

RECURSIVE StrLess(_, _)
StrLess(a, b) ==
    IF b = <<>> THEN FALSE
    ELSE IF a = <<>> THEN TRUE
    ELSE IF Head(a) # Head(b) THEN Head(a) < Head(b)
    ELSE StrLess(Tail(a), Tail(b))

StrLeq(a, b) == a = b \/ StrLess(a, b)

\* Python truthiness of an Optional[int] and an Optional[str] parameter.
TruthyInt(opt) == opt # None /\ The(opt) # 0
TruthyStr(opt) == opt # None /\ The(opt) # ""
TruthySeq(opt) == opt # None /\ The(opt) # <<>>

----------------------------------------------------------------------------
(* Categories *)

TO_BUY_CATEGORY == "To-Buy Items"

\* Rows that an in-flight session will still insert (the sequences are bounded).
PendingCategories ==
    Cardinality({w \in Workers :
                    sessions[w].pc \in {"create_category", "commit_category"}})

PendingExpenses ==
    Cardinality({w \in Workers :
                    sessions[w].pc \in {"commit_category", "commit_expense"}})

Finish(w) == sessions' = [sessions EXCEPT ![w] = IdleSession]

\* POST /api/categories, up to the existence check.
create_category(w, token, category) ==
    /\ sessions[w].pc = "idle"
    /\ \E current \in get_current_user(token) :
        IF current.status # 200
          THEN Reject("create_category", current.status, current.detail)
        ELSE IF \E c \in categories : c.name = category.name
          THEN Reject("create_category", 400, "Category already exists")
        ELSE /\ seq.categories + PendingCategories < MaxCategoryId
             /\ sessions' = [sessions EXCEPT ![w] =
                                [pc |-> "create_category", new_category |-> category]]
             /\ UNCHANGED <<tables, now, issued, resp, linked>>

\* UNIQUE(categories.name)
CategoryNameFree(name) == ~ \E c \in categories : c.name = name

\* POST /api/categories: db.add(new_category); db.commit(); db.refresh().
create_category_commit(w) ==
    /\ sessions[w].pc = "create_category"
    /\ LET category == sessions[w].new_category
           new_category == Category(seq.categories + 1, category.name, category.color) IN
       IF ~ CategoryNameFree(category.name)
         THEN /\ Reply("create_category", 500, "IntegrityError", {})
              /\ Finish(w)
              /\ UNCHANGED <<tables, now, issued, linked>>
         ELSE /\ categories' = categories \cup {new_category}
              /\ seq' = [seq EXCEPT !.categories = @ + 1]
              /\ Reply("create_category", 200, "", {new_category})
              /\ Finish(w)
              /\ UNCHANGED <<users, expenses, to_buy_items, settings, now, issued,
                             linked>>

\* DELETE /api/categories/{category_id}.  db.delete(category) sets
\* expenses.category_id of the category's expenses to NULL, which the NOT NULL
\* column refuses.
delete_category(token, category_id) ==
    \E admin \in get_admin_user(token) :
        IF admin.status # 200
          THEN Reject("delete_category", admin.status, admin.detail)
        ELSE IF ~ \E c \in categories : c.id = category_id
          THEN Reject("delete_category", 404, "Category not found")
        ELSE IF \E e \in expenses : e.category_id = category_id
          THEN Reject("delete_category", 500, "IntegrityError")
        ELSE /\ categories' = {c \in categories : c.id # category_id}
             /\ Reply("delete_category", 200, "Category deleted successfully", {})
             /\ UNCHANGED <<users, expenses, to_buy_items, settings, seq, now,
                            issued, sessions, linked>>

----------------------------------------------------------------------------
(* Expenses *)

\* Filters of GET /api/expenses as the handler applies them.
Matches(e, f) ==
    /\ TruthyInt(f.category_id) => e.category_id = The(f.category_id)
    /\ TruthyInt(f.paid_by) => e.paid_by = The(f.paid_by)
    /\ TruthyStr(f.payment_mode) => e.payment_mode = The(f.payment_mode)
    /\ TruthySeq(f.start_date) => StrLeq(The(f.start_date), e.date)
    /\ TruthySeq(f.end_date) => StrLeq(e.date, The(f.end_date))

\* order_by(Expense.date.desc(), Expense.time.desc()): a may come before b.
Before(a, b) ==
    \/ StrLess(b.date, a.date)
    \/ a.date = b.date /\ StrLeq(b.time, a.time)

\* All orders of the rows that the ORDER BY allows (ties are the database's).
Ordered(rows) ==
    { s \in [1..Cardinality(rows) -> rows] :
        /\ \A i, j \in 1..Cardinality(rows) : i # j => s[i] # s[j]
        /\ \A i, j \in 1..Cardinality(rows) : i < j => Before(s[i], s[j]) }

\* GET /api/expenses
get_expenses(token, filters) ==
    \E current \in get_current_user(token) :
        IF current.status # 200
          THEN Reject("get_expenses", current.status, current.detail)
          ELSE \E rows \in Ordered({e \in expenses : Matches(e, filters)}) :
                 /\ Reply("get_expenses", 200, "", {[rows |-> rows]})
                 /\ UNCHANGED <<tables, now, issued, sessions, linked>>

\* FOREIGN KEY constraints of the expenses table.
ExpenseKeysOk(category_id, paid_by) ==
    /\ \E c \in categories : c.id = category_id
    /\ \E u \in users : u.id = paid_by

\* POST /api/expenses
create_expense(token, expense) ==
    \E current \in get_current_user(token) :
        IF current.status # 200
          THEN Reject("create_expense", current.status, current.detail)
        ELSE IF ~ ExpenseKeysOk(expense.category_id, expense.paid_by)
          THEN Reject("create_expense", 500, "IntegrityError")
        ELSE LET new_expense ==
                   Expense(seq.expenses + 1, expense.amount, expense.category_id,
                           expense.payment_mode, expense.paid_by, expense.date,
                           expense.time, expense.description) IN
             /\ seq.expenses + PendingExpenses < MaxExpenseId
             /\ expenses' = expenses \cup {new_expense}
             /\ seq' = [seq EXCEPT !.expenses = @ + 1]
             /\ Reply("create_expense", 200, "", {new_expense})
             /\ UNCHANGED <<users, categories, to_buy_items, settings, now,
                            issued, sessions, linked>>

delete_expense_unchecked(token, expense_id) ==
    \E current \in get_current_user(token) :
        IF current.status # 200
          THEN Reject("delete_expense", current.status, current.detail)
          ELSE /\ expenses' = {e \in expenses : e.id # expense_id}
               /\ Reply("delete_expense", 200, "Expense deleted successfully", {})
               /\ UNCHANGED <<users, categories, to_buy_items, settings, seq, now,
                              issued, sessions, linked>>

\* DELETE /api/expenses/{expense_id}
delete_expense(token, expense_id) ==
    \E current \in get_current_user(token) :
        IF current.status # 200
          THEN Reject("delete_expense", current.status, current.detail)
        ELSE IF ~ \E e \in expenses : e.id = expense_id
          THEN Reject("delete_expense", 404, "Expense not found")
        ELSE /\ expenses' = {e \in expenses : e.id # expense_id}
             /\ Reply("delete_expense", 200, "Expense deleted successfully", {})
             /\ UNCHANGED <<users, categories, to_buy_items, settings, seq, now,
                            issued, sessions, linked>>

----------------------------------------------------------------------------
(* To-buy items *)

\* POST /api/to-buy
create_to_buy_item(token, item) ==
    \E current \in get_current_user(token) :
        IF current.status # 200
          THEN Reject("create_to_buy_item", current.status, current.detail)
          ELSE LET new_item == ToBuyItem(seq.to_buy_items + 1, item.name,
                                         item.target_date, The(current.user).id) IN
               /\ seq.to_buy_items < MaxItemId
               /\ to_buy_items' = to_buy_items \cup {new_item}
               /\ seq' = [seq EXCEPT !.to_buy_items = @ + 1]
               /\ Reply("create_to_buy_item", 200, "", {new_item})
               /\ UNCHANGED <<users, categories, expenses, settings, now, issued,
                              sessions, linked>>

\* DELETE /api/to-buy/{item_id}
delete_to_buy_item(token, item_id) ==
    \E current \in get_current_user(token) :
        IF current.status # 200
          THEN Reject("delete_to_buy_item", current.status, current.detail)
        ELSE IF ~ \E i \in to_buy_items : i.id = item_id
          THEN Reject("delete_to_buy_item", 404, "Item not found")
        ELSE /\ to_buy_items' = {i \in to_buy_items : i.id # item_id}
             /\ Reply("delete_to_buy_item", 200, "Item deleted successfully", {})
             /\ UNCHANGED <<users, categories, expenses, settings, seq, now,
                            issued, sessions, linked>>

----------------------------------------------------------------------------
(* Purchase -> expense *)

\* time="12:00" (digits are their values, ':' is 10: the order of the codes)
NOON == <<1, 2, 10, 0, 0>>

PurchaseColumns ==
    {"purchased", "purchased_by", "purchase_amount", "purchase_payment_mode",
     "purchase_date"}

PurchasedWithoutDate(item, purchase_info) ==
    [item EXCEPT !.purchased = TRUE,
                 !.purchased_by = Some(purchase_info.purchased_by),
                 !.purchase_amount = Some(purchase_info.purchase_amount),
                 !.purchase_payment_mode = Some(purchase_info.purchase_payment_mode)]

\* Lines 562-566: the attributes the handler sets on the loaded item.
Purchased(item, purchase_info) ==
    [item EXCEPT !.purchased = TRUE,
                 !.purchased_by = Some(purchase_info.purchased_by),
                 !.purchase_amount = Some(purchase_info.purchase_amount),
                 !.purchase_payment_mode = Some(purchase_info.purchase_payment_mode),
                 !.purchase_date = Some(purchase_info.purchase_date)]

\* The flush of the item held by session s: an UPDATE of the columns whose
\* value differs from the loaded one, WHERE id = the item's id.  No column
\* changed: no statement.  Otherwise the row must still be there
\* (StaleDataError) and purchased_by must name a user (FOREIGN KEY).
ItemChanged(s) ==
    s.dirty /\ Purchased(s.item, s.purchase_info) # s.item

ItemFlushOk(s) ==
    ItemChanged(s) =>
        /\ \E i \in to_buy_items : i.id = s.item.id
        /\ \E u \in users : u.id = s.purchase_info.purchased_by

ItemFlushed(s) ==
    IF ~ ItemChanged(s) THEN to_buy_items
    ELSE LET new == Purchased(s.item, s.purchase_info) IN
         { IF i.id # s.item.id THEN i
           ELSE [col \in DOMAIN i |->
                    IF col \in PurchaseColumns /\ new[col] # s.item[col]
                      THEN new[col] ELSE i[col]]
           : i \in to_buy_items }

\* PATCH /api/to-buy/{item_id}/purchase, lines 552-570: the item is loaded and
\* changed in the session (autoflush is off), the category is looked up.
mark_item_purchased(w, token, item_id, purchase_info) ==
    /\ sessions[w].pc = "idle"
    /\ \E current \in get_current_user(token) :
        IF current.status # 200
          THEN Reject("mark_item_purchased", current.status, current.detail)
        ELSE IF ~ \E i \in to_buy_items : i.id = item_id
          THEN Reject("mark_item_purchased", 404, "Item not found")
        ELSE LET item == The({i \in to_buy_items : i.id = item_id})
                 category == {c \in categories : c.name = TO_BUY_CATEGORY} IN
             /\ seq.expenses + PendingExpenses < MaxExpenseId
             /\ category = {} => seq.categories + PendingCategories < MaxCategoryId
             /\ sessions' = [sessions EXCEPT ![w] =
                    [pc |-> IF category = {} THEN "commit_category"
                                             ELSE "commit_expense",
                     item |-> item, purchase_info |-> purchase_info,
                     category |-> category, dirty |-> TRUE]]
             /\ UNCHANGED <<tables, now, issued, resp, linked>>

\* An exception ends the request: 500, and the session's work is rolled back.
Fail(w, detail) ==
    /\ Reply("mark_item_purchased", 500, detail, {})
    /\ Finish(w)
    /\ UNCHANGED <<tables, now, issued, linked>>

\* Lines 570-573: no "To-Buy Items" category was found; db.add(category);
\* db.commit().  The commit flushes the whole session: the item's UPDATE and
\* the category's INSERT are committed here.
mark_commit_category(w) ==
    /\ sessions[w].pc = "commit_category"
    /\ LET s == sessions[w]
           category == Category(seq.categories + 1, TO_BUY_CATEGORY, "#6366f1") IN
       IF ~ ItemFlushOk(s) THEN Fail(w, "StaleDataError or IntegrityError")
       ELSE IF ~ CategoryNameFree(TO_BUY_CATEGORY) THEN Fail(w, "IntegrityError")
       ELSE /\ to_buy_items' = ItemFlushed(s)
            /\ categories' = categories \cup {category}
            /\ seq' = [seq EXCEPT !.categories = @ + 1]
            /\ sessions' = [sessions EXCEPT ![w] =
                   [s EXCEPT !.pc = "commit_expense", !.category = {category},
                             !.dirty = FALSE]]
            /\ UNCHANGED <<users, expenses, settings, now, issued, resp, linked>>

\* Lines 574-589.  After the first commit the session's objects are expired:
\* db.refresh(category) and item.name read the rows again and raise when a
\* row is gone.  Then the expense is added and db.commit() flushes what is
\* pending (the item's UPDATE if it was not committed before, the expense's
\* INSERT); db.refresh(item) reads the item for the response.
mark_commit_expense(w) ==
    /\ sessions[w].pc = "commit_expense"
    /\ LET s == sessions[w]
           category == The(s.category)
           rows == {i \in to_buy_items : i.id = s.item.id}
           expense == Expense(seq.expenses + 1, s.purchase_info.purchase_amount,
                              category.id, s.purchase_info.purchase_payment_mode,
                              s.purchase_info.purchased_by,
                              s.purchase_info.purchase_date, NOON,
                              Some("Purchase: " \o s.item.name))
           after == {i \in ItemFlushed(s) : i.id = s.item.id} IN
       IF ~ s.dirty /\ ~ \E c \in categories : c.id = category.id
         THEN Fail(w, "InvalidRequestError")
       ELSE IF ~ s.dirty /\ rows = {} THEN Fail(w, "ObjectDeletedError")
       ELSE IF ~ ItemFlushOk(s) THEN Fail(w, "StaleDataError or IntegrityError")
       ELSE IF ~ ExpenseKeysOk(category.id, s.purchase_info.purchased_by)
         THEN Fail(w, "IntegrityError")
       ELSE /\ to_buy_items' = ItemFlushed(s)
            /\ expenses' = expenses \cup {expense}
            /\ seq' = [seq EXCEPT !.expenses = @ + 1]
            /\ linked' = linked \cup {[item |-> s.item.id, expense |-> expense.id]}
            /\ IF after = {}
                 THEN Reply("mark_item_purchased", 500, "InvalidRequestError", {})
                 ELSE Reply("mark_item_purchased", 200, "", after)
            /\ Finish(w)
            /\ UNCHANGED <<users, categories, settings, now, issued>>

\* The connection to the database is lost while a request is in flight.
connection_lost(w) ==
    /\ sessions[w].pc # "idle"
    /\ Reply(IF sessions[w].pc = "create_category" THEN "create_category"
                                                   ELSE "mark_item_purchased",
             500, "OperationalError", {})
    /\ Finish(w)
    /\ UNCHANGED <<tables, now, issued, linked>>

----------------------------------------------------------------------------
(* Settings *)

Upsert(rows, key, value) ==
    {r \in rows : r.key # key} \cup {Setting(key, value)}

\* PUT /api/settings
update_settings(token, settings_update) ==
    \E admin \in get_admin_user(token) :
        IF admin.status # 200
          THEN Reject("update_settings", admin.status, admin.detail)
          ELSE /\ settings' = Upsert(Upsert(settings, "currency_symbol",
                                            settings_update.currency_symbol),
                                     "home_name", settings_update.home_name)
               /\ Reply("update_settings", 200, "Settings updated successfully", {})
               /\ UNCHANGED <<users, categories, expenses, to_buy_items, seq, now,
                              issued, sessions, linked>>

----------------------------------------------------------------------------
(* Request inputs of the store.  Dates are shortened to the day of the month *)
(* ("05"), times to "09:00".                                                 *)

CategoryCreateInputs ==
    { [name |-> "Groceries", color |-> "#3498db"],
      [name |-> TO_BUY_CATEGORY, color |-> "#3498db"] }

CategoryIdInputs == {6, 9}

ItemCreateInputs == { [name |-> "milk", target_date |-> <<1, 0>>] }

ItemIdInputs == {1, 9}

PurchaseInputs ==
    { [purchased_by |-> 2, purchase_amount |-> 50,
       purchase_payment_mode |-> "cash", purchase_date |-> <<0, 5>>],
      [purchased_by |-> 3, purchase_amount |-> 75,
       purchase_payment_mode |-> "card", purchase_date |-> <<0, 7>>] }

ExpenseCreateInputs ==
    { [amount |-> 20, category_id |-> 1, payment_mode |-> "cash", paid_by |-> 2,
       date |-> <<0, 5>>, time |-> <<0, 9, 10, 0, 0>>, description |-> None],
      [amount |-> 30, category_id |-> 2, payment_mode |-> "card", paid_by |-> 3,
       date |-> <<0, 7>>, time |-> <<0, 9, 10, 0, 0>>, description |-> Some("gas")] }

ExpenseIdInputs == {1, 2, 9}

\* Query parameters of GET /api/expenses: each filter omitted, given, or given
\* with the value 0 or "".
Filter(category_id, paid_by, payment_mode, start_date, end_date) ==
    [category_id |-> category_id, paid_by |-> paid_by,
     payment_mode |-> payment_mode, start_date |-> start_date,
     end_date |-> end_date]

FilterInputs ==
    { NoFilters,
      Filter(Some(1), None, None, None, None),
      Filter(Some(0), None, None, None, None),
      Filter(None, Some(3), None, None, None),
      Filter(None, Some(0), None, None, None),
      Filter(None, None, Some("cash"), None, None),
      Filter(None, None, Some(""), None, None),
      Filter(None, None, None, Some(<<0, 7>>), None),
      Filter(None, None, None, None, Some(<<0, 5>>)),
      Filter(None, None, None, Some(<<>>), None),
      Filter(None, None, None, None, Some(<<>>)),
      Filter(None, None, None, Some(<<0, 5>>), Some(<<0, 7>>)),
      Filter(Some(1), Some(2), Some("cash"), Some(<<0, 5>>), Some(<<0, 5>>)),
      Filter(Some(2), Some(2), None, None, Some(<<0, 7>>)) }

SettingsInputs ==
    { [currency_symbol |-> "$", home_name |-> "Flat 4"],
      [currency_symbol |-> "Rs", home_name |-> "Flat 4"] }

----------------------------------------------------------------------------
(* Authentication and user management *)

NextAuth ==
    \/ \E user_login \in LoginInputs : login(user_login)
    \/ \E token \in Tokens : get_current_user_info(token)
    \/ \E token \in Tokens, user \in UserCreateInputs : create_user(token, user)
    \/ \E token \in Tokens, user_id \in UserIdInputs : delete_user(token, user_id)
    \/ Tick

SpecAuth == Init /\ [][NextAuth]_vars

----------------------------------------------------------------------------
(* The to-buy list and its purchases, by the workers W *)

NextPurchase(W) ==
    \/ \E user_login \in LoginInputs : login(user_login)
    \/ \E token \in Tokens, item \in ItemCreateInputs :
        create_to_buy_item(token, item)
    \/ \E w \in W, token \in Tokens, item_id \in ItemIdInputs,
          purchase_info \in PurchaseInputs :
        mark_item_purchased(w, token, item_id, purchase_info)
    \/ \E w \in W : mark_commit_category(w)
    \/ \E w \in W : mark_commit_expense(w)
    \/ \E w \in W : connection_lost(w)
    \/ \E token \in Tokens, item_id \in ItemIdInputs :
        delete_to_buy_item(token, item_id)

SpecPurchase == Init /\ [][NextPurchase(Workers)]_vars

\* Categories, by the workers W
NextCategories(W) ==
    \/ \E w \in W, token \in Tokens, category \in CategoryCreateInputs :
        create_category(w, token, category)
    \/ \E w \in W : create_category_commit(w)
    \/ \E token \in Tokens, category_id \in CategoryIdInputs :
        delete_category(token, category_id)

NextExpenses ==
    \/ \E token \in Tokens, expense \in ExpenseCreateInputs :
        create_expense(token, expense)
    \/ \E token \in Tokens, expense_id \in ExpenseIdInputs :
        delete_expense(token, expense_id)

NextUsers ==
    \/ \E token \in Tokens, user \in UserCreateInputs : create_user(token, user)
    \/ \E token \in Tokens, user_id \in UserIdInputs : delete_user(token, user_id)

\* One purchase at a time (worker w1), with the to-buy list and the categories
\* changing under it.
SpecSerial == Init /\ [][NextPurchase({"w1"}) \/ NextCategories({"w2"})]_vars

\* Purchases and category requests, two workers at once.
SpecCategories == Init /\ [][NextPurchase(Workers) \/ NextCategories(Workers)]_vars

\* Every endpoint that deletes.  The rows to delete are the seeded users and
\* what the to-buy endpoints make: items, purchase expenses and the category
\* "To-Buy Items".
NextStore ==
    \/ NextPurchase({"w1"})
    \/ \E token \in Tokens, expense_id \in ExpenseIdInputs :
        delete_expense(token, expense_id)
    \/ \E token \in Tokens, user_id \in UserIdInputs : delete_user(token, user_id)
    \/ \E token \in Tokens, category_id \in CategoryIdInputs :
        delete_category(token, category_id)

SpecStore == Init /\ [][NextStore]_vars

\* The admin-only endpoints.
NextAdmin ==
    \/ \E user_login \in LoginInputs : login(user_login)
    \/ NextUsers
    \/ NextCategories({"w1"})
    \/ \E token \in Tokens, settings_update \in SettingsInputs :
        update_settings(token, settings_update)

SpecAdmin == Init /\ [][NextAdmin]_vars

\* The expense list.
NextQuery ==
    \/ \E user_login \in LoginInputs : login(user_login)
    \/ NextExpenses
    \/ \E token \in Tokens, filters \in FilterInputs : get_expenses(token, filters)

SpecQuery == Init /\ [][NextQuery]_vars

----------------------------------------------------------------------------
(* Properties of the purchase -> expense linkage *)

ItemIds == 1..MaxItemId

\* The expense rows that mark_item_purchased created for item id and that exist.
PurchaseExpenses(id) ==
    {l \in linked : l.item = id /\ \E e \in expenses : e.id = l.expense}

\* C1: in every reachable state, every to-buy item with purchased = true has
\* exactly one expense row created for it by mark_item_purchased.
C1_ExactlyOneExpense ==
    \A i \in to_buy_items : i.purchased => Cardinality(PurchaseExpenses(i.id)) = 1

\* The "never two or more" half of C1 alone.
C1_NeverTwoExpenses ==
    \A i \in to_buy_items : i.purchased => Cardinality(PurchaseExpenses(i.id)) <= 1

IsPurchased(rows, id) == \E i \in rows : i.id = id /\ i.purchased

\* C2: mark_item_purchased is all-or-nothing: every commit that turns an item
\* to purchased also inserts the item's expense, and every commit that inserts
\* a purchase expense leaves its item purchased.
C2_AllOrNothing ==
    [][\A id \in ItemIds :
         /\ (IsPurchased(to_buy_items', id) /\ ~ IsPurchased(to_buy_items, id))
               => \E l \in linked' \ linked : l.item = id
         /\ (\E l \in linked' \ linked : l.item = id)
               => IsPurchased(to_buy_items', id)]_vars

\* C3: a mark_item_purchased request that loaded an unpurchased item and
\* returns 200 leaves the item purchased with the four purchase_* columns equal
\* to the inputs, and has added exactly one expense, with the inputs' amount,
\* payment mode, payer and date, in the one category named "To-Buy Items" (the
\* one found by the request if there was one); no expense is added before that.
C3_MarkPurchased ==
    [][\A w \in Workers :
         LET s == sessions[w]
             info == s.purchase_info IN
         /\ (s.pc = "commit_category" /\ sessions'[w].pc = "commit_expense")
               => expenses' = expenses
         /\ (/\ s.pc = "commit_expense"
             /\ sessions'[w].pc = "idle"
             /\ resp'.status = 200
             /\ ~ s.item.purchased)
               => /\ \E i \in to_buy_items' :
                        /\ i.id = s.item.id
                        /\ i.purchased
                        /\ i.purchased_by = Some(info.purchased_by)
                        /\ i.purchase_amount = Some(info.purchase_amount)
                        /\ i.purchase_payment_mode = Some(info.purchase_payment_mode)
                        /\ i.purchase_date = Some(info.purchase_date)
                        /\ resp'.body = {i}
                  /\ \E e \in expenses' \ expenses :
                        /\ expenses' = expenses \cup {e}
                        /\ e.amount = info.purchase_amount
                        /\ e.payment_mode = info.purchase_payment_mode
                        /\ e.paid_by = info.purchased_by
                        /\ e.date = info.purchase_date
                        /\ \E c \in categories' :
                              c.name = TO_BUY_CATEGORY /\ c.id = e.category_id
                        /\ s.dirty => s.category \subseteq categories'
                                      /\ e.category_id = The(s.category).id
                  /\ Cardinality({c \in categories' : c.name = TO_BUY_CATEGORY}) = 1]_vars

\* An unpurchased item was bought while no "To-Buy Items" category existed:
\* the request created the category and the one expense.
C3_Witness ==
    /\ resp.op = "mark_item_purchased" /\ resp.status = 200
    /\ \E i \in to_buy_items : i.purchased /\ resp.body = {i}
    /\ Cardinality(linked) = 1
    /\ \E e \in expenses, c \in categories :
          c.name = TO_BUY_CATEGORY /\ c.color = "#6366f1" /\ c.id = e.category_id

----------------------------------------------------------------------------
(* Properties of the authentication gate *)

\* Every result of the dependency for this token is a user / an admin.
Authenticated(token) == \A current \in get_current_user(token) : current.status = 200

IsAdmin(token) == \A admin \in get_admin_user(token) : admin.status = 200

NonAdmin(token) ==
    \A current \in get_current_user(token) :
        current.status = 200 /\ The(current.user).role # "admin"

Forbidden ==
    /\ resp'.status = 403
    /\ resp'.detail = "Admin access required"
    /\ UNCHANGED <<users, categories, settings, seq>>

\* C4: a request to create_user, delete_user, delete_category or
\* update_settings whose token resolves to a user with role # "admin" is
\* answered 403 and leaves users, categories and settings unchanged, whatever
\* the payload or the target id.
C4_ForbiddenNotAdmin ==
    [][\A token \in Tokens :
         NonAdmin(token) =>
            /\ \A user \in UserCreateInputs :
                  create_user(token, user) => Forbidden
            /\ \A user_id \in UserIdInputs :
                  delete_user(token, user_id) => Forbidden
            /\ \A category_id \in CategoryIdInputs :
                  delete_category(token, category_id) => Forbidden
            /\ \A settings_update \in SettingsInputs :
                  update_settings(token, settings_update) => Forbidden]_vars

\* A non-admin was refused the creation of a user whose name is taken, with a
\* token in hand.
C4_Witness ==
    /\ resp.op = "create_user" /\ resp.status = 403
    /\ \E token \in Tokens : NonAdmin(token)
    /\ \A user \in UserCreateInputs :
          user.username = "user3" \/ \E u \in users : u.username = user.username
    /\ ~ \E u \in users : u.username = "user3"

UserNamed(username) == {u \in users : u.username = username}

\* C5: while an issued token is unexpired, resolving it gives the current row
\* of the user its username names, whatever was done to the users since, and
\* fails (401, "User not found") exactly when no user has that username.
C5_TokenOutlivesChanges ==
    [][\A i \in issued :
         i.token.exp > now =>
            LET found == UserNamed(i.token.sub) IN
            /\ get_current_user(i.token) =
                  IF found = {}
                    THEN {AuthError(401, "User not found")}
                    ELSE {[status |-> 200, detail |-> "", user |-> found]}
            /\ get_current_user_info(i.token) =>
                  IF found = {}
                    THEN resp'.status = 401 /\ resp'.detail = "User not found"
                    ELSE /\ resp'.status = 200
                         /\ resp'.body = {UserResponse(The(found))}]_vars

\* A token was issued to user 2 (user1, role user); that user was deleted and
\* the name re-created as user 4 with another password and role admin; user 4
\* never logged in, and the token of user 2 has just resolved to user 4.
C5_Witness ==
    /\ \E i \in issued : i.user = 2 /\ i.token.exp > now
    /\ \A i \in issued : i.user # 4
    /\ resp.op = "me" /\ resp.status = 200
    /\ \E u \in resp.body : u.id = 4 /\ u.username = "user1" /\ u.role = "admin"
    /\ \E u \in users : u.id = 4 /\ u.password = "secret"

\* C9: login with the username and password of a stored user answers 200 with
\* a token that get_current_user, called in the state login leaves, resolves to
\* that same user; login with a pair no user has answers 401 and issues nothing.
C9_LoginRoundTrip ==
    [][\A user_login \in LoginInputs :
         login(user_login) =>
            LET found == {u \in users : /\ u.username = user_login.username
                                        /\ u.password = user_login.password} IN
            IF found = {}
              THEN /\ resp'.status = 401
                   /\ resp'.detail = "Invalid credentials"
                   /\ issued' = issued
              ELSE /\ resp'.status = 200
                   /\ \E i \in issued' :
                        /\ resp'.body = {[access_token |-> i.token,
                                          token_type |-> "bearer",
                                          user |-> UserResponse(The(found))]}
                        /\ get_current_user(i.token)' =
                              {[status |-> 200, detail |-> "", user |-> found]}]_vars

\* The re-created user1 logged in with the new password.
C9_Witness ==
    /\ resp.op = "login" /\ resp.status = 200
    /\ \E r \in resp.body : r.user.id = 4 /\ r.user.username = "user1"

\* C10: a token's exp is the time of the login plus 24 hours; once the clock
\* is past exp, every resolution of the token fails with 401 "Invalid or
\* expired token", whether or not its user exists; issued tokens and the clock
\* never go back.
C10_Expiry ==
    [][/\ \A i \in issued' \ issued : i.token.exp = now + 24
       /\ \A i \in issued :
            i.token.exp < now =>
               /\ get_current_user(i.token) =
                     {AuthError(401, "Invalid or expired token")}
               /\ get_current_user_info(i.token) =>
                     /\ resp'.status = 401
                     /\ resp'.detail = "Invalid or expired token"
       /\ issued \subseteq issued'
       /\ now' >= now]_vars

\* Every token in circulation is past its expiry, one of them of a user that
\* exists, and GET /api/me has just refused.
C10_Witness ==
    /\ issued # {}
    /\ \A i \in issued : i.token.exp < now
    /\ \E i \in issued : UserNamed(i.token.sub) # {}
    /\ resp.op = "me" /\ resp.status = 401
    /\ resp.detail = "Invalid or expired token"

----------------------------------------------------------------------------
(* Properties of the resource store *)

NamePresent(name) == \E c \in categories : c.name = name

\* C6: a create_category request is answered 400, with the categories
\* unchanged, when its name exists, and 200, with the new row in the table,
\* when it does not, at its existence check and at its insert alike; and no
\* two categories ever share a name.
C6_DuplicateName ==
    [][/\ \A w \in Workers, token \in Tokens, category \in CategoryCreateInputs :
            (/\ create_category(w, token, category)
             /\ Authenticated(token)
             /\ NamePresent(category.name))
               => resp'.status = 400 /\ categories' = categories
       /\ \A w \in Workers :
            create_category_commit(w) =>
               IF NamePresent(sessions[w].new_category.name)
                 THEN resp'.status = 400 /\ categories' = categories
                 ELSE /\ resp'.status = 200
                      /\ \E c \in categories' \ categories :
                            c.name = sessions[w].new_category.name
       /\ \A c1, c2 \in categories' : c1.name = c2.name => c1 = c2]_vars

\* The part of C6 that the UNIQUE constraint on categories.name carries.
C6_UniqueNames ==
    \A c1, c2 \in categories : c1.name = c2.name => c1 = c2

Missing(rows, id) == ~ \E r \in rows : r.id = id

NotFound(token_ok) ==
    /\ UNCHANGED <<tables, sessions, linked>>
    /\ token_ok => resp'.status = 404

\* C7: delete_user, delete_category, delete_expense, delete_to_buy_item and
\* mark_item_purchased, addressed to an id that is not in the table, leave
\* every table unchanged and start no work (no expense, no category), and
\* answer 404 when the caller passes the endpoint's authentication.
C7_NotFound ==
    [][/\ resp'.op = "delete_user" =>
            \A token \in Tokens, user_id \in UserIdInputs :
               (Missing(users, user_id) /\ delete_user(token, user_id))
                  => NotFound(IsAdmin(token))
       /\ resp'.op = "delete_category" =>
            \A token \in Tokens, category_id \in CategoryIdInputs :
               (Missing(categories, category_id) /\ delete_category(token, category_id))
                  => NotFound(IsAdmin(token))
       /\ resp'.op = "delete_expense" =>
            \A token \in Tokens, expense_id \in ExpenseIdInputs :
               (Missing(expenses, expense_id) /\ delete_expense(token, expense_id))
                  => NotFound(Authenticated(token))
       /\ resp'.op = "delete_to_buy_item" =>
            \A token \in Tokens, item_id \in ItemIdInputs :
               (Missing(to_buy_items, item_id) /\ delete_to_buy_item(token, item_id))
                  => NotFound(Authenticated(token))
       /\ (resp'.op = "mark_item_purchased" \/ sessions' # sessions) =>
            \A token \in Tokens, w \in Workers, item_id \in ItemIdInputs,
               purchase_info \in PurchaseInputs :
               (/\ Missing(to_buy_items, item_id)
                /\ mark_item_purchased(w, token, item_id, purchase_info))
                  => NotFound(Authenticated(token))]_vars

\* A purchase of an item that does not exist was refused: no expense and no
\* "To-Buy Items" category exist, and no request is in flight.
C7_Witness ==
    /\ resp.op = "mark_item_purchased" /\ resp.status = 404
    /\ to_buy_items = {} /\ expenses = {} /\ linked = {}
    /\ ~ NamePresent(TO_BUY_CATEGORY)
    /\ \A w \in Workers : sessions[w].pc = "idle"

\* The filters as C8 reads them: a filter that is supplied restricts.
Satisfies(e, f) ==
    /\ f.category_id # None => e.category_id = The(f.category_id)
    /\ f.paid_by # None => e.paid_by = The(f.paid_by)
    /\ f.payment_mode # None => e.payment_mode = The(f.payment_mode)
    /\ f.start_date # None => StrLeq(The(f.start_date), e.date)
    /\ f.end_date # None => StrLeq(e.date, The(f.end_date))

Listed(rows, matching) ==
    /\ {rows[k] : k \in DOMAIN rows} = matching
    /\ Len(rows) = Cardinality(matching)
    /\ \A j, k \in DOMAIN rows : j < k => Before(rows[j], rows[k])

\* C8: get_expenses returns exactly the expenses that satisfy every supplied
\* filter, ordered by date and then time, descending, for every filter value,
\* 0 and "" included.
C8_Filters ==
    [][\A token \in Tokens, filters \in FilterInputs :
         (get_expenses(token, filters) /\ resp'.status = 200)
            => \E r \in resp'.body :
                  Listed(r.rows, {e \in expenses : Satisfies(e, filters)})]_vars

\* C8 for the filter values that Python takes as true (not 0, not "").
Truthy(f) ==
    /\ f.category_id # Some(0) /\ f.paid_by # Some(0)
    /\ f.payment_mode # Some("")
    /\ f.start_date # Some(<<>>) /\ f.end_date # Some(<<>>)

C8_TruthyFilters ==
    [][\A token \in Tokens, filters \in FilterInputs :
         (get_expenses(token, filters) /\ resp'.status = 200 /\ Truthy(filters))
            => \E r \in resp'.body :
                  Listed(r.rows, {e \in expenses : Satisfies(e, filters)})]_vars

-----------------------------------------------------------------------------
(* Properties of the purchase columns of a to-buy item *)

PurchaseFieldsSet(i) ==
    /\ i.purchased_by # None /\ i.purchase_amount # None
    /\ i.purchase_payment_mode # None /\ i.purchase_date # None

PurchaseFieldsNull(i) ==
    /\ i.purchased_by = None /\ i.purchase_amount = None
    /\ i.purchase_payment_mode = None /\ i.purchase_date = None

PurchaseFieldsTogether(i) ==
    IF i.purchased THEN PurchaseFieldsSet(i) ELSE PurchaseFieldsNull(i)

\* A purchased item that is still there after the step is still purchased and
\* still has its four purchase_* columns.
StaysPurchased ==
    \A i \in to_buy_items :
        i.purchased =>
            \A j \in to_buy_items' :
                j.id = i.id => j.purchased /\ PurchaseFieldsSet(j)

\* C11: in every reachable state each to-buy item has either purchased = false
\* and purchased_by, purchase_amount, purchase_payment_mode and purchase_date
\* all null, or purchased = true and all four set; and no step takes a
\* purchased item back to purchased = false or sets one of its purchase_*
\* columns to null: a purchased item leaves that state only by being deleted.
C11_PurchaseFields ==
    /\ [](\A i \in to_buy_items : PurchaseFieldsTogether(i))
    /\ [][StaysPurchased]_vars

\* C11 for every step but a user's deletion.
C11_ExceptUserDeletion ==
    [][(to_buy_items' # to_buy_items /\ resp'.op # "delete_user")
          => /\ \A j \in to_buy_items' : PurchaseFieldsTogether(j)
             /\ StaysPurchased]_vars

====
